---- MODULE Spec2Model ----
(***************************************************************************)
(* VisionParse (app.py): the bulk document export pipeline.                *)
(*                                                                         *)
(* Strings are modelled as sequences of tokens (a token is a short string  *)
(* that is never split): a file name is <<stem, "_table_", "1", ".csv">>,  *)
(* a line of the annotated text is <<"[Table ", "1", "]">>, an element's   *)
(* text is a sequence of characters.  Formatting an integer picks its      *)
(* decimal digit, so every counter of the model stays below 10.            *)
(***************************************************************************)
EXTENDS Naturals, Sequences, FiniteSets, TLC

(***************************************************************************)
(* Bounds of the model.                                                    *)
(***************************************************************************)
\* longest element stream handed to generate_txt / export_tables
MaxLen == 3
\* largest index n of a generated image file <stem>_img_<n>.png on disk
MaxImg == 2
\* longest batch of uploaded files
MaxBatch == 2
\* number of times "Convert All" is clicked in one session
MaxRuns == 2

(***************************************************************************)
(* Text and formatting helpers.                                            *)
(***************************************************************************)
Digits == <<"0", "1", "2", "3", "4", "5", "6", "7", "8", "9">>

\* f"{i}" for a one-digit integer
Str(n) == Digits[n + 1]

\* the integer a digit token stands for
DigitVal(d) == CHOOSE k \in 0..9 : Digits[k + 1] = d

IsSpace(c) == c = " "

RECURSIVE LStrip(_)
LStrip(s) == IF s # <<>> /\ IsSpace(Head(s)) THEN LStrip(Tail(s)) ELSE s

RECURSIVE RStrip(_)
RStrip(s) ==
    IF s # <<>> /\ IsSpace(s[Len(s)]) THEN RStrip(SubSeq(s, 1, Len(s) - 1)) ELSE s

\* str.strip()
Strip(s) == RStrip(LStrip(s))

\* '#' * lvl
Hashes(lvl) == [i \in 1..lvl |-> "#"]

\* the separator of "\n\n".join(lines)
BlankLine == "\n\n"

RECURSIVE Join(_)
\* "\n\n".join(lines): the lines' tokens with one separator between two lines
Join(lines) ==
    IF lines = <<>> THEN <<>>
    ELSE IF Len(lines) = 1 THEN lines[1]
    ELSE lines[1] \o <<BlankLine>> \o Join(Tail(lines))

RECURSIVE SplitBlocks(_, _)
\* the blocks of a text: its maximal runs of tokens between separators
\* (cur is the block being read)
SplitBlocks(toks, cur) ==
    IF toks = <<>> THEN <<cur>>
    ELSE IF Head(toks) = BlankLine THEN <<cur>> \o SplitBlocks(Tail(toks), <<>>)
    ELSE SplitBlocks(Tail(toks), Append(cur, Head(toks)))

\* the blocks of an annotated text (the empty text has none)
Blocks(content) == IF content = <<>> THEN <<>> ELSE SplitBlocks(content, <<>>)

(***************************************************************************)
(* The document model handed over by the converter: an ordered stream of   *)
(* elements.  level = 0 stands for "no level attribute"; ok tells whether  *)
(* export_to_dataframe succeeds on a table; data identifies its content.   *)
(***************************************************************************)
NoLevel == 0

Heading(lvl, txt) == [kind |-> "heading", level |-> lvl, text |-> txt, data |-> "", ok |-> TRUE]
TextBlock(txt) == [kind |-> "text", level |-> NoLevel, text |-> txt, data |-> "", ok |-> TRUE]
Table(d, good) == [kind |-> "table", level |-> NoLevel, text |-> <<>>, data |-> d, ok |-> good]
Picture == [kind |-> "picture", level |-> NoLevel, text |-> <<>>, data |-> "", ok |-> TRUE]

Texts == {<<>>, <<"a">>, <<" ", "b">>}

Elements ==
    {Heading(1, <<"a">>), Heading(2, <<" ", "b">>), Heading(1, <<>>),
     Heading(1, <<" ">>)}
    \cup {TextBlock(t) : t \in Texts}
    \cup {Table("A", TRUE), Table("B", TRUE), Table("X", FALSE)}
    \cup {Picture}

\* every element stream of at most n elements
Streams(n) == UNION {[1..k -> Elements] : k \in 0..n}

IsTable(el) == el.kind = "table"
IsPicture(el) == el.kind = "picture"

\* doc.tables: the tables of the document, in stream order
TablesOf(items) == SelectSeq(items, IsTable)

PicturesOf(items) == SelectSeq(items, IsPicture)

(***************************************************************************)
(* File names.                                                             *)
(***************************************************************************)
\* f"{base.name}_img_{n}.png"
ImgName(stem, n) == <<stem, "_img_", Str(n), ".png">>

\* f"{base.name}_table_{i}.csv"
CsvName(stem, i) == <<stem, "_table_", Str(i), ".csv">>

\* f"{base.name}.txt" and the other renderings of the document
DocName(stem, ext) == <<stem, ext>>

\* p.suffix.lower(): the extension is the last token of a name
Suffix(name) == name[Len(name)]

\* mutant of GlobPng: every file of the directory, base.glob("*")
GlobAnyFile(names) == names

\* base.glob("*.png") over the names of a directory
GlobPng(names) == {n \in names : Suffix(n) = ".png"}

\* the order of sorted() on the names of one directory: <stem>.<ext> comes
\* before <stem>_img_<n>.png ("." is below "_"), and the image names differ
\* in their one-digit index only, where string order is numeric order
NameBefore(a, b) ==
    IF Len(a) # Len(b) THEN Len(a) < Len(b) ELSE DigitVal(a[3]) < DigitVal(b[3])

RECURSIVE Sorted(_)
\* sorted(names)
Sorted(names) ==
    IF names = {} THEN <<>>
    ELSE LET first == CHOOSE a \in names : \A b \in names \ {a} : NameBefore(a, b)
         IN <<first>> \o Sorted(names \ {first})

(***************************************************************************)
(* generate_txt: one pass over the element stream.                         *)
(***************************************************************************)
\* mutant of HeadingLine: the markers and the text without the space
HeadingLineNoSpace(lvl, txt) == Hashes(lvl) \o txt

\* f"{'#'*lvl} {txt}"
HeadingLine(lvl, txt) == Hashes(lvl) \o <<" ">> \o txt

\* f"[Table {ti}]"
TableLabel(ti) == <<"[Table ", Str(ti), "]">>

\* df.to_string(index=False): the grid of the table's data
Grid(el) == <<"grid:", el.data>>

\* f"[Image: {fn}]"
ImageLabel(fn) == <<"[Image: ">> \o fn \o <<"]">>

\* mutant of PictureName: the fallback name numbered with the zero-based index
PictureNameZeroBased(imgs, pi, stem) ==
    IF pi < Len(imgs) THEN imgs[pi + 1] ELSE ImgName(stem, pi)

\* imgs[pi].name if pi < len(imgs) else f"{base.name}_img_{pi+1}.png"
\* (pi is zero-based, Python's imgs[pi] is imgs[pi + 1] here)
PictureName(imgs, pi, stem) ==
    IF pi < Len(imgs) THEN imgs[pi + 1] ELSE ImgName(stem, pi + 1)

\* the state of the loop before its first element
TxtStart == [lines |-> <<>>, ti |-> 0, pi |-> 0, raised |-> FALSE]

\* mutant of TableBranch: the label written before the counter is incremented
TableBranchLabelFirst(st, el) ==
    IF el.ok
    THEN [st EXCEPT !.ti = @ + 1,
                    !.lines = @ \o <<TableLabel(st.ti), Grid(el)>>]
    ELSE [st EXCEPT !.ti = @ + 1, !.raised = TRUE]

\* the table branch: the counter, then the export (which may raise), then the
\* label and the grid as two lines
TableBranch(st, el) ==
    IF el.ok
    THEN [st EXCEPT !.ti = @ + 1,
                    !.lines = @ \o <<TableLabel(st.ti + 1), Grid(el)>>]
    ELSE [st EXCEPT !.ti = @ + 1, !.raised = TRUE]

\* mutant of PictureBranch: the label goes to the front of the lines
PictureBranchLabelInFront(st, imgs, stem) ==
    [st EXCEPT !.pi = @ + 1,
               !.lines = <<ImageLabel(PictureName(imgs, st.pi, stem))>> \o @]

\* the picture branch
PictureBranch(st, imgs, stem) ==
    [st EXCEPT !.pi = @ + 1,
               !.lines = Append(@, ImageLabel(PictureName(imgs, st.pi, stem)))]

\* one iteration of the for loop of generate_txt
TxtElement(st, el, imgs, stem) ==
    LET lvl == el.level
        txt == Strip(el.text)
    IN  IF lvl # NoLevel /\ txt # <<>>
        THEN [st EXCEPT !.lines = Append(@, HeadingLine(lvl, txt))]
        ELSE IF IsTable(el) THEN TableBranch(st, el)
        ELSE IF IsPicture(el) THEN PictureBranch(st, imgs, stem)
        ELSE IF txt # <<>> THEN [st EXCEPT !.lines = Append(@, txt)]
        ELSE st

RECURSIVE TxtLoop(_, _, _, _)
\* the for loop: it ends at the end of the stream or at the first exception
TxtLoop(items, imgs, stem, st) ==
    IF items = <<>> \/ st.raised THEN st
    ELSE TxtLoop(Tail(items), imgs, stem, TxtElement(st, Head(items), imgs, stem))

\* generate_txt(res, base): names are the file names in base.  The result
\* tells whether an exception left the function, the lines gathered so far,
\* and whether the text file was written and with what
generate_txt(items, names, stem) ==
    LET imgs == Sorted(GlobPng(names))
        st == TxtLoop(items, imgs, stem, TxtStart)
    IN  [raised |-> st.raised,
         lines |-> st.lines,
         written |-> ~st.raised,
         content |-> IF st.raised THEN <<>> ELSE Join(st.lines)]

(***************************************************************************)
(* export_tables: one CSV per table of doc.tables.                         *)
(***************************************************************************)
\* the state of the loop before its first table
CsvStart == [csvs |-> <<>>, raised |-> FALSE]

\* one iteration: export (which may raise), then write <stem>_table_<i>.csv
CsvElement(st, tbl, i, stem) ==
    IF tbl.ok
    THEN [st EXCEPT !.csvs = Append(@, [name |-> CsvName(stem, i), data |-> tbl.data])]
    ELSE [st EXCEPT !.raised = TRUE]

RECURSIVE CsvLoopSameNumber(_, _, _, _)
\* mutant of CsvLoop: the number is not advanced from one table to the next
CsvLoopSameNumber(tables, i, stem, st) ==
    IF tables = <<>> \/ st.raised THEN st
    ELSE CsvLoopSameNumber(Tail(tables), i, stem, CsvElement(st, Head(tables), i, stem))

RECURSIVE CsvLoop(_, _, _, _)
\* for i, tbl in enumerate(doc.tables, start=1)
CsvLoop(tables, i, stem, st) ==
    IF tables = <<>> \/ st.raised THEN st
    ELSE CsvLoop(Tail(tables), i + 1, stem, CsvElement(st, Head(tables), i, stem))

\* export_tables(doc, base, extract_tables): the CSV files written, in order,
\* and whether an exception left the function
export_tables(items, stem, xt) ==
    IF xt THEN CsvLoop(TablesOf(items), 1, stem, CsvStart) ELSE CsvStart

(***************************************************************************)
(* The uploaded files.  body stands for the bytes of the file: what the    *)
(* converter (or pandas, for a spreadsheet) makes of them.                 *)
(***************************************************************************)
\* Path(f.name).stem
Stem(name) == name[1]

\* Path(f.name).suffix.lower().lstrip(".")
Ext(name) == name[2]

\* a readable document: its element stream, the image files the engine
\* generates for it (their indexes) and, per page, whether a page image exists
GoodBody ==
    [conv |-> "ok",
     items |-> <<Heading(1, <<"a">>), Table("A", TRUE), Picture, Picture>>,
     images |-> {1}, pages |-> <<TRUE, TRUE>>, sheets |-> {}]

\* a second readable document, one page of which has no image
PlainBody ==
    [conv |-> "ok",
     items |-> <<TextBlock(<<" ", "b">>), Table("B", TRUE)>>,
     images |-> {}, pages |-> <<TRUE, FALSE>>, sheets |-> {}]

\* a readable document with a table whose export fails
BadTableBody ==
    [conv |-> "ok",
     items |-> <<Table("A", TRUE), Table("X", FALSE), Table("B", TRUE)>>,
     images |-> {}, pages |-> <<TRUE>>, sheets |-> {}]

\* bytes the converter cannot turn into a document model
CorruptBody ==
    [conv |-> "fail", items |-> <<>>, images |-> {}, pages |-> <<>>, sheets |-> {}]

\* a workbook with two sheets
SheetBody ==
    [conv |-> "ok", items |-> <<>>, images |-> {}, pages |-> <<>>, sheets |-> {"S1", "S2"}]

Uploads ==
    {[name |-> <<"report", "pdf">>, body |-> GoodBody],
     [name |-> <<"report", "pdf">>, body |-> CorruptBody],
     [name |-> <<"report", "docx">>, body |-> PlainBody],
     [name |-> <<"memo", "pdf">>, body |-> BadTableBody],
     [name |-> <<"data", "xlsx">>, body |-> SheetBody]}

\* the batches the uploader can hold: up to MaxBatch different files, in any order
Batches ==
    {b \in UNION {[1..k -> Uploads] : k \in 1..MaxBatch} :
        \A i, j \in DOMAIN b : i # j => b[i] # b[j]}

\* the three renderings of a document, in the order main() writes them
Renderings ==
    <<[call |-> "save_as_markdown", ext |-> ".md", kind |-> "markdown"],
      [call |-> "save_as_html", ext |-> ".html", kind |-> "html"],
      [call |-> "write_json", ext |-> ".json", kind |-> "json"]>>

(***************************************************************************)
(* State.                                                                  *)
(***************************************************************************)
VARIABLES
    pc,             \* where main() stands: idle, loop, job, convert, render,
                    \* txt, tables, finalize, zip, done, crashed
    files,          \* st.session_state.files
    extract_tables, \* sidebar checkbox "Extract Tables" (set once per session)
    export_mm,      \* sidebar checkbox "Export Multimodal Parquet" (set once)
    runs,           \* number of clicks on "Convert All" so far
    idx,            \* the loop index of main (1-based)
    dirs,           \* the directories under artifacts/
    fs,             \* the files under artifacts/: <<dir, name>> -> file
    tmp,            \* the temporary PDF files that exist
    res,            \* the conversion result of the current job
    results,        \* the list results of main
    progress,       \* the last value given to progress.progress, <<idx, total>>
    status,         \* the text of the status placeholder
    errors,         \* the file names reported by st.error
    rows,           \* the rows of the flattened dataset
    zip,            \* the members written to the archive
    offered,        \* the download buttons shown
    call,           \* a direct call of generate_txt / export_tables and its results
    raised,         \* the call whose exception left main() in this run ("" if none)
    fault,          \* the rendering call that cannot write its file in this
                    \* session ("" if all can)
    twin,           \* two archive steps side by side, each over its own
                    \* artifacts directory, and their archives
    opt             \* the single-file converter (app_opt): its session
                    \* state, its widgets and the page of its last script run

vars == <<pc, files, extract_tables, export_mm, runs, idx, dirs, fs, tmp, res,
          results, progress, status, errors, rows, zip, offered, call, raised, fault, twin, opt>>

batchVars == <<pc, files, extract_tables, export_mm, runs, idx, dirs, fs, tmp, res,
               results, progress, status, errors, rows, zip, offered, raised, fault, twin>>

\* no conversion result
NoRes == [idx |-> 0, name |-> <<>>, status |-> "none", items |-> <<>>, pages |-> <<>>]

\* no archive steps side by side
NoTwin == [batch |-> {}, side |-> <<>>]

\* st.session_state.current_file = None
NoFile == [name |-> <<>>, conv |-> "none"]

\* process_document returned None, or has not run
NoResult == [name |-> <<>>, document |-> <<>>]

\* the page of a script run in which nothing was converted
NoPage == [error |-> {}, success |-> FALSE, link |-> {}, preview |-> {}]

\* the single-file converter as its first script run leaves it
NoOpt ==
    [pc |-> "idle", file_type |-> "PDF", uploaded_file |-> NoFile,
     current_file |-> NoFile, output_format |-> "Markdown", use_ocr |-> TRUE, result |-> NoResult,
     raised |-> FALSE, page |-> NoPage]

\* no direct call made
NoCall ==
    [items |-> <<>>, names |-> {}, xt |-> FALSE,
     txt |-> [ran |-> FALSE, raised |-> FALSE, lines |-> <<>>, written |-> FALSE,
              content |-> <<>>],
     again |-> [ran |-> FALSE, raised |-> FALSE, lines |-> <<>>, written |-> FALSE,
                content |-> <<>>],
     csv |-> [ran |-> FALSE, raised |-> FALSE, csvs |-> <<>>]]

\* the working directory of the current job: out_root / Path(f.name).stem
Base == Stem(files[idx].name)

\* the names of the files of directory d
NamesIn(d) == {p[2] : p \in {q \in DOMAIN fs : q[1] = d}}

\* writing (or overwriting) the file at path p
WriteFile(f, p, file) == [q \in DOMAIN f \cup {p} |-> IF q = p THEN file ELSE f[q]]

RECURSIVE WriteAll(_, _)
\* writing the files of a sequence of <<path, file>> pairs, in order
WriteAll(f, ws) ==
    IF ws = <<>> THEN f ELSE WriteAll(WriteFile(f, ws[1][1], ws[1][2]), Tail(ws))

\* a file of a kind with its content, written by job j of the current run
\* (job is 0 once the run that wrote the file is over)
File(k, d, j) == [kind |-> k, data |-> d, job |-> j]

\* the files on disk when a new run starts: all written by earlier runs
Aged(f) == [q \in DOMAIN f |-> [f[q] EXCEPT !.job = 0]]

Init ==
    /\ pc = "idle"
    /\ files = <<>>
    /\ extract_tables \in BOOLEAN
    /\ export_mm \in BOOLEAN
    /\ runs = 0
    /\ idx = 0
    /\ dirs = {}
    /\ fs = <<>>
    /\ tmp = {}
    /\ res = NoRes
    /\ results = <<>>
    /\ progress = <<0, 0>>
    /\ status = <<>>
    /\ errors = {}
    /\ rows = <<>>
    /\ zip = {}
    /\ offered = {}
    /\ call = NoCall
    /\ raised = ""
    /\ opt = NoOpt
    /\ fault \in {""} \cup {Renderings[k].call : k \in 1..3}
    /\ twin = NoTwin

(***************************************************************************)
(* main(): the widgets.                                                    *)
(***************************************************************************)
\* the script is not inside a "Convert All" run
AtRest == pc \in {"idle", "done", "crashed"}

\* a widget event outside "Convert All" reruns the script with the button not
\* pressed: the page of the last run (status, progress, messages, download
\* buttons) and the locals of main() are gone, the files on disk stay
PageReset ==
    /\ pc' = "idle"
    /\ idx' = 0
    /\ res' = NoRes
    /\ results' = <<>>
    /\ progress' = <<0, 0>>
    /\ status' = <<>>
    /\ errors' = {}
    /\ rows' = <<>>
    /\ zip' = {}
    /\ offered' = {}
    /\ raised' = ""

\* st.file_uploader returns files: st.session_state.files = files (a
\* selection is made once before a run and may be changed after it)
Upload ==
    /\ AtRest
    /\ pc = "idle" => files = <<>>
    /\ \E b \in Batches : files' = b
    /\ PageReset
    /\ UNCHANGED <<extract_tables, export_mm, runs, dirs, fs, tmp, call, fault, twin, opt>>

\* the button "Clear Session": st.session_state.files.clear()
ClearSession ==
    /\ AtRest
    /\ files # <<>>
    /\ files' = <<>>
    /\ PageReset
    /\ UNCHANGED <<extract_tables, export_mm, runs, dirs, fs, tmp, call, fault, twin, opt>>

\* the button "Convert All" (disabled while no file is held): the run starts
\* with a fresh page, out_root.mkdir(exist_ok=True), progress 0 and results = []
StartBatch ==
    /\ AtRest
    /\ files # <<>>
    /\ runs < MaxRuns
    /\ runs' = runs + 1
    /\ pc' = "loop"
    /\ idx' = 1
    /\ res' = NoRes
    /\ results' = <<>>
    /\ progress' = <<0, Len(files)>>
    /\ status' = <<>>
    /\ errors' = {}
    /\ rows' = <<>>
    /\ zip' = {}
    /\ offered' = {}
    /\ raised' = ""
    /\ fs' = Aged(fs)
    /\ UNCHANGED <<files, extract_tables, export_mm, dirs, tmp, call, fault, twin, opt>>

(***************************************************************************)
(* main(): the loop over the files.                                        *)
(***************************************************************************)
\* the head of an iteration: the status text and base.mkdir(exist_ok=True)
BeginJob ==
    /\ pc = "loop"
    /\ idx <= Len(files)
    /\ status' = <<"Processing ">> \o files[idx].name
    /\ dirs' = dirs \cup {Base}
    /\ pc' = "job"
    /\ UNCHANGED <<files, extract_tables, export_mm, runs, idx, fs, tmp, res,
                   results, progress, errors, rows, zip, offered, call, raised, fault, twin, opt>>

\* the four files written for sheet sh of a workbook
SheetFiles(stem, sh, j) ==
    <<<<<<stem, <<stem, "_", sh, ".csv">>>>,  File("csv", <<"sheet:", sh>>, j)>>,
      <<<<stem, <<stem, "_", sh, ".md">>>>,   File("markdown", <<"sheet:", sh>>, j)>>,
      <<<<stem, <<stem, "_", sh, ".html">>>>, File("html", <<"sheet:", sh>>, j)>>,
      <<<<stem, <<stem, "_", sh, ".txt">>>>,  File("text", <<"sheet:", sh>>, j)>>>>

RECURSIVE AllSheetFiles(_, _, _)
\* for sh, df in sheets.items()
AllSheetFiles(stem, sheets, j) ==
    IF sheets = {} THEN <<>>
    ELSE LET sh == CHOOSE x \in sheets : TRUE
         IN SheetFiles(stem, sh, j) \o AllSheetFiles(stem, sheets \ {sh}, j)

\* mutant of XlsxJob: a workbook is done without a word to the progress bar
XlsxJobNoProgress ==
    /\ pc = "job"
    /\ Ext(files[idx].name) = "xlsx"
    /\ fs' = IF extract_tables
             THEN WriteAll(fs, AllSheetFiles(Base, files[idx].body.sheets, idx))
             ELSE fs
    /\ idx' = idx + 1
    /\ pc' = "loop"
    /\ UNCHANGED <<files, extract_tables, export_mm, runs, dirs, tmp, res, results,
                   progress, status, errors, rows, zip, offered, call, raised, fault, twin, opt>>

\* ext == "xlsx": the sheets are written when extract_tables is set, then
\* progress and continue
XlsxJob ==
    /\ pc = "job"
    /\ Ext(files[idx].name) = "xlsx"
    /\ fs' = IF extract_tables
             THEN WriteAll(fs, AllSheetFiles(Base, files[idx].body.sheets, idx))
             ELSE fs
    /\ progress' = <<idx, Len(files)>>
    /\ idx' = idx + 1
    /\ pc' = "loop"
    /\ UNCHANGED <<files, extract_tables, export_mm, runs, dirs, tmp, res, results,
                   status, errors, rows, zip, offered, call, raised, fault, twin, opt>>

\* ext == "pdf": the bytes go to a temporary file (delete=False)
MakeTemp ==
    /\ pc = "job"
    /\ Ext(files[idx].name) = "pdf"
    /\ tmp' = tmp \cup {<<runs, idx>>}
    /\ pc' = "convert"
    /\ UNCHANGED <<files, extract_tables, export_mm, runs, idx, dirs, fs, res,
                   results, progress, status, errors, rows, zip, offered, call, raised, fault, twin, opt>>

\* the image files the engine generates into the working directory
EngineImages(stem, images, j) ==
    LET ns == Sorted({ImgName(stem, n) : n \in images})
    IN [k \in 1..Len(ns) |-> <<<<stem, ns[k]>>, File("image", ns[k], j)>>]

\* mutant of AtConvert: a workbook goes to the converter like any other format
AtConvertAlsoXlsx ==
    \/ pc = "convert"
    \/ pc = "job" /\ Ext(files[idx].name) # "pdf"

\* the job is at its conversion: a PDF after its temporary file was made,
\* any other non-spreadsheet format straight away
AtConvert ==
    \/ pc = "convert"
    \/ pc = "job" /\ Ext(files[idx].name) \notin {"xlsx", "pdf"}

\* mutant of Convert: os.unlink(tmp.name) after next(gen) instead of in a
\* finally clause, so that an exception of the conversion passes it by
ConvertUnlinkAfter ==
    /\ AtConvert
    /\ \/ /\ files[idx].body.conv = "ok"
          /\ res' = [idx |-> idx, name |-> files[idx].name, status |-> "success",
                     items |-> files[idx].body.items, pages |-> files[idx].body.pages]
          /\ fs' = WriteAll(fs, EngineImages(Base, files[idx].body.images, idx))
          /\ tmp' = tmp \ {<<runs, idx>>}
          /\ pc' = "render"
          /\ raised' = raised
       \/ /\ files[idx].body.conv = "fail"
          /\ res' = [idx |-> idx, name |-> files[idx].name, status |-> "failure",
                     items |-> <<>>, pages |-> <<>>]
          /\ fs' = fs
          /\ tmp' = tmp \ {<<runs, idx>>}
          /\ pc' = "render"
          /\ raised' = raised
       \/ /\ files[idx].body.conv = "fail"
          /\ res' = res
          /\ fs' = fs
          /\ tmp' = tmp
          /\ pc' = "crashed"
          /\ raised' = "convert"
    /\ UNCHANGED <<files, extract_tables, export_mm, runs, idx, dirs, results,
                   progress, status, errors, rows, zip, offered, call, fault, twin, opt>>

\* converter.convert_all(..., raises_on_error=False); res = next(gen), and
\* for a PDF os.unlink(tmp.name) in the finally clause.  A conversion that
\* fails either comes back as a result without a document model (its
\* document is empty) or leaves next(gen) as an exception
Convert ==
    /\ AtConvert
    /\ tmp' = tmp \ {<<runs, idx>>}
    /\ \/ /\ files[idx].body.conv = "ok"
          /\ res' = [idx |-> idx, name |-> files[idx].name, status |-> "success",
                     items |-> files[idx].body.items, pages |-> files[idx].body.pages]
          /\ fs' = WriteAll(fs, EngineImages(Base, files[idx].body.images, idx))
          /\ pc' = "render"
          /\ raised' = raised
       \/ /\ files[idx].body.conv = "fail"
          /\ res' = [idx |-> idx, name |-> files[idx].name, status |-> "failure",
                     items |-> <<>>, pages |-> <<>>]
          /\ fs' = fs
          /\ pc' = "render"
          /\ raised' = raised
       \/ /\ files[idx].body.conv = "fail"
          /\ res' = res
          /\ fs' = fs
          /\ pc' = "crashed"
          /\ raised' = "convert"
    /\ UNCHANGED <<files, extract_tables, export_mm, runs, idx, dirs, results,
                   progress, status, errors, rows, zip, offered, call, fault, twin, opt>>

\* the files of the first n renderings of the current job
Rendered(n) ==
    [k \in 1..n |-> <<<<Base, DocName(Base, Renderings[k].ext)>>,
                      File(Renderings[k].kind, res.name, idx)>>]

\* save_as_markdown, save_as_html and json_p.write_text, one after the other:
\* either all three files are written, or one of the calls raises (the file
\* cannot be written), which leaves main() with the earlier files on disk
Render ==
    /\ pc = "render"
    /\ \/ /\ fault = ""
          /\ fs' = WriteAll(fs, Rendered(3))
          /\ pc' = "txt"
          /\ raised' = raised
       \/ \E k \in 1..3 :
             /\ fault = Renderings[k].call
             /\ fs' = WriteAll(fs, Rendered(k - 1))
             /\ pc' = "crashed"
             /\ raised' = fault
    /\ UNCHANGED <<files, extract_tables, export_mm, runs, idx, dirs, tmp, res,
                   results, progress, status, errors, rows, zip, offered, call, fault, twin, opt>>

\* generate_txt(res, base): an exception of a table export leaves main
GenerateTxt ==
    /\ pc = "txt"
    /\ LET r == generate_txt(res.items, NamesIn(Base), Base)
       IN /\ fs' = IF r.written
                   THEN WriteFile(fs, <<Base, DocName(Base, ".txt")>>,
                                  File("text", r.content, idx))
                   ELSE fs
          /\ pc' = IF r.raised THEN "crashed" ELSE "tables"
          /\ raised' = IF r.raised THEN "generate_txt" ELSE raised
    /\ UNCHANGED <<files, extract_tables, export_mm, runs, idx, dirs, tmp, res,
                   results, progress, status, errors, rows, zip, offered, call, fault, twin, opt>>

\* the files export_tables wrote before it returned or raised
CsvFiles(stem, csvs, j) ==
    [k \in 1..Len(csvs) |-> <<<<stem, csvs[k].name>>, File("csv", <<"grid:", csvs[k].data>>, j)>>]

\* export_tables(res.document, base, extract_tables), then
\* results.append(res) and progress.progress(idx/total)
ExportTables ==
    /\ pc = "tables"
    /\ LET r == export_tables(res.items, Base, extract_tables)
       IN /\ fs' = WriteAll(fs, CsvFiles(Base, r.csvs, idx))
          /\ pc' = IF r.raised THEN "crashed" ELSE "loop"
          /\ results' = IF r.raised THEN results ELSE Append(results, res)
          /\ progress' = IF r.raised THEN progress ELSE <<idx, Len(files)>>
          /\ idx' = IF r.raised THEN idx ELSE idx + 1
          /\ raised' = IF r.raised THEN "export_tables" ELSE raised
    /\ UNCHANGED <<files, extract_tables, export_mm, runs, dirs, tmp, res,
                   status, errors, rows, zip, offered, call, fault, twin, opt>>

\* the loop is over: status.text("Finalizing...")
LoopEnd ==
    /\ pc = "loop"
    /\ idx > Len(files)
    /\ status' = <<"Finalizing">>
    /\ pc' = "finalize"
    /\ UNCHANGED <<files, extract_tables, export_mm, runs, idx, dirs, fs, tmp, res,
                   results, progress, errors, rows, zip, offered, call, raised, fault, twin, opt>>

(***************************************************************************)
(* main(): the flattened dataset and the archive.                          *)
(***************************************************************************)
\* the rows appended for one result: one per page generate_multimodal_pages
\* yields
RowsOf(r) == [k \in 1..Len(r.pages) |-> [doc |-> r.name, job |-> r.idx, page |-> k]]

RECURSIVE PageRowsPerDocument(_)
\* mutant of PageRows: one row per result, whatever its pages
PageRowsPerDocument(rs) ==
    IF rs = <<>> THEN <<>>
    ELSE <<[doc |-> Head(rs).name, job |-> Head(rs).idx, page |-> 1]>>
         \o PageRowsPerDocument(Tail(rs))

RECURSIVE PageRows(_)
\* the rows of the dataset: for res in results, for each page, rows.append
PageRows(rs) ==
    IF rs = <<>> THEN <<>> ELSE RowsOf(Head(rs)) \o PageRows(Tail(rs))

\* page.image.width on a page without image raises
PageWithoutImage(rs) ==
    \E i \in DOMAIN rs : \E k \in DOMAIN rs[i].pages : ~rs[i].pages[k]

\* if export_mm: the rows, the parquet buffer and its download button
Finalize ==
    /\ pc = "finalize"
    /\ IF export_mm
       THEN IF PageWithoutImage(results)
            THEN /\ pc' = "crashed"
                 /\ raised' = "page.image"
                 /\ UNCHANGED <<rows, offered>>
            ELSE /\ rows' = PageRows(results)
                 /\ offered' = offered \cup {"parquet"}
                 /\ pc' = "zip"
                 /\ raised' = raised
       ELSE /\ pc' = "zip"
            /\ UNCHANGED <<rows, offered, raised>>
    /\ UNCHANGED <<files, extract_tables, export_mm, runs, idx, dirs, fs, tmp, res,
                   results, progress, status, errors, zip>>
    /\ UNCHANGED <<call, fault, twin, opt>>

\* mutant of Bucket: every file directly under its document's directory
BucketFlat(name) == <<>>

\* the bucket of a file name by its suffix (lines 254-263)
Bucket(name) ==
    LET e == Suffix(name)
    IN  IF e = ".md" THEN <<"md">>
        ELSE IF e = ".html" THEN <<"html">>
        ELSE IF e = ".json" THEN <<"json">>
        ELSE IF e = ".txt" THEN <<"txt">>
        ELSE IF e = ".csv" THEN <<"assets", "tables">>
        ELSE IF e \in {".png", ".jpg", ".jpeg"} THEN <<"assets", "images">>
        ELSE <<>>

\* arc = f"{pref}/<bucket>/{p.name}": the member path as one string, the
\* parts of the bucket each after a "/"
ArcName(pref, bucket, name) ==
    <<pref>>
    \o [i \in 1..(2 * Len(bucket)) |-> IF i % 2 = 1 THEN "/" ELSE bucket[i \div 2]]
    \o <<"/">> \o name

\* zf.write(p, arc) for the file at path p = <<dir, name>> of the files f
Member(f, p) ==
    [pref |-> p[1], bucket |-> Bucket(p[2]), name |-> p[2], src |-> p, file |-> f[p],
     arc |-> ArcName(p[1], Bucket(p[2]), p[2])]

\* mutant of Archive: image files are left out of the archive
ArchiveWithoutImages(f, ds) ==
    {Member(f, p) : p \in {q \in DOMAIN f :
                              q[1] \in ds /\ Len(q) = 2 /\ Suffix(q[2]) # ".png"}}

\* for d in out_root.iterdir(): for p in d.iterdir(): zf.write(p, arc), over
\* the directories ds and the files f under out_root: p goes over the
\* entries directly in d (paths <<d, name>>), not over what is further down
Archive(f, ds) ==
    {Member(f, p) : p \in {q \in DOMAIN f : q[1] \in ds /\ Len(q) = 2}}

\* the archive of the artifacts directory as it is
ArchiveAll == Archive(fs, dirs)

\* mutant of Zip: the files on disk are also archived while the loop runs
ZipInsideLoop ==
    /\ pc \in {"loop", "zip"}
    /\ zip' = ArchiveAll
    /\ offered' = IF pc = "zip" THEN offered \cup {"zip"} ELSE offered
    /\ status' = IF pc = "zip" THEN <<>> ELSE status
    /\ pc' = IF pc = "zip" THEN "done" ELSE pc
    /\ UNCHANGED <<files, extract_tables, export_mm, runs, idx, dirs, fs, tmp, res,
                   results, progress, errors, rows, call, raised, fault, twin, opt>>

\* the members in the buffer when zf.write raises after the directories ds
\* were gone through (which directories come first is up to iterdir)
PartialArchive(ds) == {m \in ArchiveAll : m.pref \in ds}

\* mutant of ZipFails: the buffer is offered for download all the same
ZipFailsButOffers ==
    /\ pc = "zip"
    /\ \E m \in ArchiveAll : \E ds \in SUBSET (dirs \ {m.pref}) :
          zip' = PartialArchive(ds)
    /\ offered' = offered \cup {"zip"}
    /\ pc' = "crashed"
    /\ raised' = "zf.write"
    /\ UNCHANGED <<files, extract_tables, export_mm, runs, idx, dirs, fs, tmp, res,
                   results, progress, status, errors, rows, call, fault, twin, opt>>

\* zf.write(p, arc) raises at a file m (it cannot be read or written): the
\* with block closes the buffer with the members written so far and the
\* exception leaves main() before st.success and the download button
ZipFails ==
    /\ pc = "zip"
    /\ \E m \in ArchiveAll : \E ds \in SUBSET (dirs \ {m.pref}) :
          zip' = PartialArchive(ds)
    /\ pc' = "crashed"
    /\ raised' = "zf.write"
    /\ UNCHANGED <<files, extract_tables, export_mm, runs, idx, dirs, fs, tmp, res,
                   results, progress, status, errors, rows, offered, call, fault, twin, opt>>

\* the archive is packaged, then st.success, the download button,
\* status.empty() and progress.empty()
Zip ==
    /\ pc = "zip"
    /\ zip' = ArchiveAll
    /\ offered' = offered \cup {"zip"}
    /\ status' = <<>>
    /\ pc' = "done"
    /\ UNCHANGED <<files, extract_tables, export_mm, runs, idx, dirs, fs, tmp, res,
                   results, progress, errors, rows, call, raised, fault, twin, opt>>

Next ==
    \/ Upload
    \/ ClearSession
    \/ StartBatch
    \/ BeginJob
    \/ XlsxJob
    \/ MakeTemp
    \/ Convert
    \/ Render
    \/ GenerateTxt
    \/ ExportTables
    \/ LoopEnd
    \/ Finalize
    \/ Zip
    \/ ZipFails

Spec == Init /\ [][Next]_vars

\* a statement of main() between the click on "Convert All" and the end of
\* the script, when its files can be written
RunStep ==
    \/ BeginJob
    \/ XlsxJob
    \/ MakeTemp
    \/ Convert
    \/ Render
    \/ GenerateTxt
    \/ ExportTables
    \/ LoopEnd
    \/ Finalize
    \/ Zip

\* the script, once started, runs on until it ends or an exception leaves
\* it; nothing is assumed of the user's clicks
SpecFair == Spec /\ WF_vars(RunStep)

(***************************************************************************)
(* generate_txt and export_tables called directly, on every element        *)
(* stream of at most MaxLen elements and every set of image files in the   *)
(* working directory "doc".                                                *)
(***************************************************************************)
CallStem == "doc"

InitCall ==
    /\ pc = "idle"
    /\ files = <<>>
    /\ extract_tables = FALSE
    /\ export_mm = FALSE
    /\ runs = 0
    /\ idx = 0
    /\ dirs = {}
    /\ fs = <<>>
    /\ tmp = {}
    /\ res = NoRes
    /\ results = <<>>
    /\ progress = <<0, 0>>
    /\ status = <<>>
    /\ errors = {}
    /\ rows = <<>>
    /\ zip = {}
    /\ offered = {}
    /\ raised = ""
    /\ opt = NoOpt
    /\ fault = ""
    /\ twin = NoTwin
    /\ \E s \in Streams(MaxLen) : \E ns \in SUBSET (1..MaxImg) :
          call = [NoCall EXCEPT !.items = s,
                                !.names = {ImgName(CallStem, n) : n \in ns}]

\* generate_txt(res, base) on the stream and the directory of the call; the
\* text file it writes is in the directory from then on
CallGenerateTxt ==
    /\ ~call.txt.ran
    /\ LET r == generate_txt(call.items, call.names, CallStem)
       IN call' = [call EXCEPT !.txt = [ran |-> TRUE, raised |-> r.raised,
                                        lines |-> r.lines, written |-> r.written,
                                        content |-> r.content],
                               !.names = IF r.written
                                         THEN @ \cup {DocName(CallStem, ".txt")}
                                         ELSE @]
    /\ UNCHANGED <<batchVars, opt>>

\* generate_txt(res, base) a second time, on the same stream and the
\* directory as the first call left it
CallGenerateTxtAgain ==
    /\ call.txt.ran
    /\ ~call.again.ran
    /\ LET r == generate_txt(call.items, call.names, CallStem)
       IN call' = [call EXCEPT !.again = [ran |-> TRUE, raised |-> r.raised,
                                          lines |-> r.lines, written |-> r.written,
                                          content |-> r.content]]
    /\ UNCHANGED <<batchVars, opt>>

\* export_tables(doc, base, extract_tables) on the stream of the call, after
\* the passes of generate_txt (it reads the document only, so the order is of
\* no consequence), with the checkbox set or not
CallExportTables ==
    /\ call.again.ran
    /\ ~call.csv.ran
    /\ \E xt \in BOOLEAN :
          LET r == export_tables(call.items, CallStem, xt)
          IN call' = [call EXCEPT !.xt = xt,
                                  !.csv = [ran |-> TRUE, raised |-> r.raised,
                                           csvs |-> r.csvs]]
    /\ UNCHANGED <<batchVars, opt>>

NextCall == CallGenerateTxt \/ CallGenerateTxtAgain \/ CallExportTables

SpecCall == InitCall /\ [][NextCall]_vars

(***************************************************************************)
(* The archive step of two runs side by side.  Both runs have the same     *)
(* completed jobs with the same artifacts in their working directories;    *)
(* what earlier runs left under artifacts/ is each run's own.              *)
(***************************************************************************)
\* the working directories main() can make for the uploads
Stems == {Stem(u.name) : u \in Uploads}

\* what a working directory holds: the three renderings (a run that went no
\* further), the renderings with the text, a table and an image, or the
\* renderings with a subdirectory that holds an image file
DirContents == {"rendered", "all", "nested"}

\* the name of a subdirectory of the working directory of stem
SubDirName(stem) == <<stem, "_artifacts">>

\* the entries <<path below the directory, file>> of the working directory
\* of stem with content c, written by job j
DirFiles(stem, c, j) ==
    LET docs == {<<<<DocName(stem, Renderings[k].ext)>>,
                   File(Renderings[k].kind, <<stem>>, j)>> : k \in 1..3}
        rest == {<<<<DocName(stem, ".txt")>>, File("text", <<>>, j)>>,
                 <<<<CsvName(stem, 1)>>, File("csv", <<"grid:", "A">>, j)>>,
                 <<<<ImgName(stem, 1)>>, File("image", ImgName(stem, 1), j)>>}
        sub  == {<<<<SubDirName(stem)>>, File("dir", <<>>, j)>>,
                 <<<<SubDirName(stem), ImgName(stem, 1)>>,
                   File("image", ImgName(stem, 1), j)>>}
    IN  IF c = "all" THEN docs \cup rest
        ELSE IF c = "nested" THEN docs \cup sub
        ELSE docs

\* the files under artifacts/ for the directories of cf, each with its content
DiskFiles(cf, j) ==
    LET paths == UNION {{<<d>> \o nf[1] : nf \in DirFiles(d, cf[d], j)} : d \in DOMAIN cf}
    IN  [p \in paths |->
            (CHOOSE nf \in DirFiles(p[1], cf[p[1]], j) : nf[1] = Tail(p))[2]]

\* two sets of files in different directories, together
Merge(f, g) == [p \in DOMAIN f \cup DOMAIN g |-> IF p \in DOMAIN f THEN f[p] ELSE g[p]]

\* a run about to package: the directories and files under artifacts/
Side(ds, f) == [dirs |-> ds, fs |-> f, ran |-> FALSE, zip |-> {}]

InitArchive ==
    /\ pc = "idle"
    /\ files = <<>>
    /\ extract_tables = FALSE
    /\ export_mm = FALSE
    /\ runs = 0
    /\ idx = 0
    /\ dirs = {}
    /\ fs = <<>>
    /\ tmp = {}
    /\ res = NoRes
    /\ results = <<>>
    /\ progress = <<0, 0>>
    /\ status = <<>>
    /\ errors = {}
    /\ rows = <<>>
    /\ zip = {}
    /\ offered = {}
    /\ raised = ""
    /\ opt = NoOpt
    /\ fault = ""
    /\ call = NoCall
    /\ \E B \in SUBSET Stems \ {{}} : \E c \in [B -> DirContents] :
       \E S1, S2 \in SUBSET (Stems \ B) :
       \E c1 \in [S1 -> DirContents] : \E c2 \in [S2 -> DirContents] :
          twin = [batch |-> B,
                  side |-> <<Side(B \cup S1, Merge(DiskFiles(c, 1), DiskFiles(c1, 0))),
                             Side(B \cup S2, Merge(DiskFiles(c, 1), DiskFiles(c2, 0)))>>]

\* the archive step of one of the two runs (lines 248-264)
CallArchive ==
    /\ \E k \in DOMAIN twin.side :
          /\ ~twin.side[k].ran
          /\ twin' = [twin EXCEPT !.side[k] =
                        [dirs |-> @.dirs, fs |-> @.fs, ran |-> TRUE,
                         zip |-> Archive(@.fs, @.dirs)]]
    /\ UNCHANGED <<pc, files, extract_tables, export_mm, runs, idx, dirs, fs, tmp,
                   res, results, progress, status, errors, rows, zip, offered,
                   call, raised, fault, opt>>

NextArchive == CallArchive

SpecArchive == InitArchive /\ [][NextArchive]_vars

(***************************************************************************)
(* Reading an annotated text back: its labels.                             *)
(***************************************************************************)
IsTableLabel(b) == Len(b) = 3 /\ b[1] = "[Table " /\ b[3] = "]"

IsImageLabel(b) == Len(b) >= 2 /\ b[1] = "[Image: " /\ b[Len(b)] = "]"

\* the numbers of the "[Table i]" labels of a sequence of blocks, in order
RECURSIVE TableNumbers(_)
TableNumbers(bs) ==
    IF bs = <<>> THEN <<>>
    ELSE IF IsTableLabel(Head(bs))
         THEN <<DigitVal(Head(bs)[2])>> \o TableNumbers(Tail(bs))
         ELSE TableNumbers(Tail(bs))

\* the names of the "[Image: ...]" labels of a sequence of blocks, in order
RECURSIVE ImageNames(_)
ImageNames(bs) ==
    IF bs = <<>> THEN <<>>
    ELSE IF IsImageLabel(Head(bs))
         THEN <<SubSeq(Head(bs), 2, Len(Head(bs)) - 1)>> \o ImageNames(Tail(bs))
         ELSE ImageNames(Tail(bs))

\* the marker the annotated text is to carry for a table that cannot be exported
Unavailable == <<"<unavailable>">>

\* the direct call: its tables, pictures and sorted image files
CallTables == TablesOf(call.items)
CallPictures == PicturesOf(call.items)
CallImages == Sorted(GlobPng(call.names))
CallBlocks == Blocks(call.txt.content)

(***************************************************************************)
(* Claims about generate_txt and export_tables (SpecCall).                 *)
(***************************************************************************)
\* C1: once generate_txt has been given an element stream, the annotated
\* text carries exactly the labels [Table 1] .. [Table N], in this order, for
\* the N tables of the stream, whether or not some table exports fail.
C1_TableLabelsCountTables ==
    call.txt.ran =>
        TableNumbers(CallBlocks) = [i \in 1..Len(CallTables) |-> i]

\* C2: the N-th [Image: ...] label generate_txt emits names the N-th image
\* file of the working directory in sorted order while N is at most the
\* number M of image files, and <stem>_img_<N>.png for N above M; a pass that
\* completes emits one label per Picture element.
C2_ImageLabelNames ==
    call.txt.ran =>
        LET labels == ImageNames(call.txt.lines)
        IN /\ \A n \in DOMAIN labels :
                labels[n] = IF n <= Len(CallImages) THEN CallImages[n]
                            ELSE <<CallStem, "_img_", Digits[n + 1], ".png">>
           /\ ~call.txt.raised =>
                /\ Len(labels) = Len(CallPictures)
                /\ ImageNames(CallBlocks) = labels

\* C2 witness: a completed pass over two pictures with one image file on
\* disk: the first label takes the file's name, the second the synthesized one.
C2_Witness ==
    /\ call.txt.ran /\ ~call.txt.raised
    /\ Len(CallImages) = 1
    /\ Len(ImageNames(CallBlocks)) = 2
    /\ ImageNames(CallBlocks)[1] = CallImages[1]
    /\ ImageNames(CallBlocks)[2] # CallImages[1]

C7_OtherTablesStillWritten ==
    (call.csv.ran /\ call.xt) =>
        \A i \in DOMAIN CallTables :
            CallTables[i].ok =>
                \E c \in DOMAIN call.csv.csvs :
                    /\ call.csv.csvs[c].name = <<CallStem, "_table_", Digits[i + 1], ".csv">>
                    /\ call.csv.csvs[c].data = CallTables[i].data

\* C8: a table whose export fails does not abort generate_txt: the text file
\* is written, the failing table's label is followed by the "<unavailable>"
\* marker, and the labels of all pictures of the stream are still emitted.
C8_FailedTableIsMarked ==
    call.txt.ran =>
        /\ call.txt.written
        /\ \A i \in DOMAIN CallTables :
              ~CallTables[i].ok =>
                  \E k \in DOMAIN CallBlocks :
                      /\ CallBlocks[k] = <<"[Table ", Digits[i + 1], "]">>
                      /\ k < Len(CallBlocks)
                      /\ CallBlocks[k + 1] = Unavailable
        /\ Len(ImageNames(CallBlocks)) = Len(CallPictures)

\* C15: a second run of generate_txt on the same element stream and the
\* same image files, in the directory that now holds the text file of the
\* first run, ends as the first did and writes the same text, token for token.
C15_SecondPassSameText ==
    call.again.ran =>
        /\ call.again.raised = call.txt.raised
        /\ call.again.written = call.txt.written
        /\ call.again.lines = call.txt.lines
        /\ call.again.content = call.txt.content

\* C15 witness: the second run wrote a text with a table label and an image
\* label naming an image file, with the first run's text file in the
\* directory.
C15_Witness ==
    /\ call.again.ran /\ call.again.written
    /\ DocName(CallStem, ".txt") \in call.names
    /\ CallImages # <<>>
    /\ TableNumbers(Blocks(call.again.content)) # <<>>
    /\ \E n \in DOMAIN ImageNames(Blocks(call.again.content)) :
          ImageNames(Blocks(call.again.content))[n] = CallImages[1]

\* a single line break inside a block
NewLine == "\n"

\* C16: in the annotated text written by generate_txt, every "[Table i]"
\* label is followed by a single newline and then the grid of the table: label
\* and grid are one block, and the blank-line separator stands only between
\* blocks.
C16_LabelAndGridOneBlock ==
    (call.txt.ran /\ call.txt.written) =>
        \A p \in DOMAIN call.txt.content :
            call.txt.content[p] = "[Table " =>
                /\ p + 4 <= Len(call.txt.content)
                /\ call.txt.content[p + 2] = "]"
                /\ call.txt.content[p + 3] = NewLine
                /\ call.txt.content[p + 4] = "grid:"

(***************************************************************************)
(* The loop of generate_txt element by element, in the direct call.        *)
(***************************************************************************)
\* the state of the loop of generate_txt after the first k elements of the
\* stream of the call
LoopAfter(k) == TxtLoop(SubSeq(call.items, 1, k), CallImages, CallStem, TxtStart)

\* the lines element k of the stream added
LinesOf(k) ==
    LET before == LoopAfter(k - 1).lines
        after == LoopAfter(k).lines
    IN  SubSeq(after, Len(before) + 1, Len(after))

\* element k of the stream was reached by the loop and went through it
Passed(k) == k \in DOMAIN call.items /\ ~LoopAfter(k).raised

\* element k left both counters as they were
CountersKept(k) ==
    LET before == LoopAfter(k - 1)
        after == LoopAfter(k)
    IN  after.ti = before.ti /\ after.pi = before.pi

IsHeading(el) == el.kind = "heading" /\ el.level >= 1

C22_ParagraphVerbatim ==
    call.txt.ran =>
        \A k \in DOMAIN call.items :
            (Passed(k) /\ call.items[k].kind = "text") =>
                LinesOf(k) = IF call.items[k].text # <<>>
                             THEN <<call.items[k].text>>
                             ELSE <<>>

\* the number of tables, and of pictures, among the first k elements
TablesUpTo(k) == Len(TablesOf(SubSeq(call.items, 1, k)))
PicturesUpTo(k) == Len(PicturesOf(SubSeq(call.items, 1, k)))

\* the blocks element k of the stream stands for in the annotated text
BlocksFor(k) ==
    LET el == call.items[k]
        t == Strip(el.text)
        n == PicturesUpTo(k)
    IN  IF el.level # NoLevel /\ t # <<>>
        THEN <<[i \in 1..el.level |-> "#"] \o <<" ">> \o t>>
        ELSE IF IsTable(el)
        THEN <<<<"[Table ", Digits[TablesUpTo(k) + 1], "]">>, <<"grid:", el.data>>>>
        ELSE IF IsPicture(el)
        THEN <<<<"[Image: ">>
               \o (IF n <= Len(CallImages) THEN CallImages[n]
                   ELSE <<CallStem, "_img_", Digits[n + 1], ".png">>)
               \o <<"]">>>>
        ELSE IF t # <<>> THEN <<t>>
        ELSE <<>>

RECURSIVE BlocksUpTo(_)
\* the blocks of the first k elements, one element after the other
BlocksUpTo(k) == IF k = 0 THEN <<>> ELSE BlocksUpTo(k - 1) \o BlocksFor(k)

\* C23: the blocks read back from the annotated text are the blocks of the
\* elements of the stream, element after element in the order of the stream,
\* each once: the block of an earlier element comes before the block of a
\* later one and no block is there twice.
C23_BlocksInStreamOrder ==
    (call.txt.ran /\ call.txt.written) => CallBlocks = BlocksUpTo(Len(call.items))

\* C23 witness: a text written for a picture, then a table, then a heading:
\* four blocks, the image label first and the heading last.
C23_Witness ==
    /\ call.txt.ran /\ call.txt.written
    /\ Len(call.items) = 3
    /\ IsPicture(call.items[1]) /\ IsTable(call.items[2]) /\ IsHeading(call.items[3])
    /\ Len(CallBlocks) = 4
    /\ IsImageLabel(CallBlocks[1])
    /\ IsTableLabel(CallBlocks[2])
    /\ CallBlocks[4][1] = "#"

\* C26: a call of export_tables that returns with extract_tables set has
\* written one CSV file per table of the document, the file of the i-th table
\* in encounter order named <stem>_table_<i>.csv and holding that table's
\* data, no number used twice; with extract_tables not set the call writes no
\* file and returns the empty list.
C26_CsvPerTableWhenSet ==
    call.csv.ran =>
        IF call.xt
        THEN ~call.csv.raised =>
                /\ Len(call.csv.csvs) = Len(CallTables)
                /\ \A i \in DOMAIN call.csv.csvs :
                      /\ call.csv.csvs[i].name =
                             <<CallStem, "_table_", Digits[i + 1], ".csv">>
                      /\ call.csv.csvs[i].data = CallTables[i].data
                /\ \A i, j \in DOMAIN call.csv.csvs :
                      call.csv.csvs[i].name = call.csv.csvs[j].name => i = j
        ELSE ~call.csv.raised /\ call.csv.csvs = <<>>

\* export_tables returned with extract_tables set from a document of two
\* tables with other elements around them
C26_Witness ==
    /\ call.csv.ran /\ call.xt /\ ~call.csv.raised
    /\ Len(CallTables) = 2
    /\ Len(call.items) = 3
    /\ Len(call.csv.csvs) = 2

\* C27: the names carried by the [Image: ...] labels of one annotated text are
\* pairwise distinct: a synthesized name <stem>_img_<k>.png is never the name
\* of an image file already used for an earlier picture of the document.
C27_ImageLabelsDistinct ==
    call.txt.ran =>
        LET labels == ImageNames(call.txt.lines)
        IN \A i, j \in DOMAIN labels : labels[i] = labels[j] => i = j

(***************************************************************************)
(* The jobs of a batch, as the loop of main() stands.                      *)
(***************************************************************************)
\* the working directory of job i: out_root / Path(f.name).stem
WorkDir(i) == Stem(files[i].name)

\* a job that left the loop body: Failed when its conversion result carries
\* no document model, Completed otherwise
Resolved(i) ==
    IF \E k \in DOMAIN results : results[k].idx = i /\ results[k].status = "failure"
    THEN "Failed" ELSE "Completed"

\* the state of job i of the batch: the jobs before the loop index have been
\* through the loop body, the job at the index is in it, the others wait
JobState(i) ==
    IF pc = "idle" THEN "Pending"
    ELSE IF pc \in {"finalize", "zip", "done"} THEN Resolved(i)
    ELSE IF i < idx THEN Resolved(i)
    ELSE IF i = idx /\ pc # "loop" THEN "Processing"
    ELSE "Pending"

\* the bucket the archive layout gives to each kind of artifact
KindBucket(kind) ==
    IF kind = "markdown" THEN <<"md">>
    ELSE IF kind = "html" THEN <<"html">>
    ELSE IF kind = "json" THEN <<"json">>
    ELSE IF kind = "text" THEN <<"txt">>
    ELSE IF kind = "csv" THEN <<"assets", "tables">>
    ELSE IF kind = "image" THEN <<"assets", "images">>
    ELSE <<>>

(***************************************************************************)
(* Claims about a batch run (Spec).                                        *)
(***************************************************************************)
\* C3: every archive member lies at <stem>/<bucket>/<file name>: its
\* top-level directory is the stem its file name starts with, and its bucket
\* is the one fixed for the kind of content the file was written with
\* (markdown md, html html, json json, text txt, csv assets/tables, image
\* assets/images).
C3_MemberPathByKind ==
    \A m \in zip :
        /\ m.pref = m.name[1]
        /\ m.bucket = KindBucket(m.file.kind)
        /\ m.src = <<m.pref, m.name>>

\* C3 witness: a finished run whose archive holds a member in each of the
\* six buckets.
C3_Witness ==
    /\ pc = "done"
    /\ \A k \in {"markdown", "html", "json", "text", "csv", "image"} :
          \E m \in zip : m.file.kind = k

\* C4: when a batch run has ended, a job whose conversion failed has no
\* member in the archive, no row in the flattened dataset, and its file name
\* has been reported as failed.
C4_FailedJobLeavesNothing ==
    pc = "done" =>
        \A i \in DOMAIN files :
            JobState(i) = "Failed" =>
                /\ ~\E m \in zip : m.file.job = i
                /\ ~\E k \in DOMAIN rows : rows[k].job = i
                /\ files[i].name \in errors

\* C5: a failed conversion never stops the batch run: the run is not left
\* aborted at a job whose conversion failed (the loop goes on to the later
\* inputs and the archive is built).
C5_FailedConversionDoesNotAbort ==
    ~(/\ pc = "crashed"
      /\ raised = "convert"
      /\ idx \in DOMAIN files
      /\ files[idx].body.conv = "fail")

\* C9: during a run, two jobs with different file names never have the same
\* working directory: no file written by one job of the run lies in the
\* working directory of another job that has begun.
C9_WorkDirsExclusive ==
    ~AtRest =>
        \A p \in DOMAIN fs :
            fs[p].job # 0 =>
                \A i \in DOMAIN files :
                    (JobState(i) # "Pending" /\ i # fs[p].job
                        /\ files[i].name # files[fs[p].job].name)
                    => WorkDir(i) # p[1]

\* C10: a file is in the archive only when every job of the batch has left
\* Pending and Processing.
C10_ArchiveAfterAllJobs ==
    zip # {} => \A i \in DOMAIN files : JobState(i) \in {"Completed", "Failed"}

\* C10 witness: a run over two files has packaged its archive.
C10_Witness ==
    /\ pc = "done"
    /\ zip # {}
    /\ Len(files) = 2
    /\ Len(results) = 2

\* C11: when a run has packaged its archive, the top-level directory of every
\* member is the stem of an input of the current batch, never the directory
\* of a document that only an earlier run processed.
C11_ArchiveOfCurrentBatchOnly ==
    pc = "done" =>
        \A m \in zip : \E i \in DOMAIN files : WorkDir(i) = m.pref

\* the files on disk that job i of the current run wrote
JobFiles(i) == {p \in DOMAIN fs : fs[p].job = i}

\* the key of an artifact group: the file name without its extension
GroupKey(name) == SubSeq(name, 1, Len(name) - 1)

\* C13: a spreadsheet input never reaches the document converter (no
\* temporary file, no conversion result, no place of main() after the
\* conversion), and once its job is resolved with extract_tables set the files
\* the job wrote are exactly one group per sheet, keyed <stem>_<sheet> (CSV,
\* markdown, HTML and text of the sheet): n groups for n sheets, and none
\* of <stem>.md, <stem>.html, <stem>.json, <stem>.txt, <stem>_table_<i>.csv.
C13_SheetsBypassConverter ==
    \A i \in DOMAIN files :
        Ext(files[i].name) = "xlsx" =>
            LET stem == Stem(files[i].name)
                sheets == files[i].body.sheets
            IN  /\ res.idx # i
                /\ \A k \in DOMAIN results : results[k].idx # i
                /\ <<runs, i>> \notin tmp
                /\ idx = i => pc \in {"loop", "job"}
                /\ (extract_tables /\ JobState(i) = "Completed") =>
                      /\ {GroupKey(p[2]) : p \in JobFiles(i)}
                            = {<<stem, "_", sh>> : sh \in sheets}
                      /\ Cardinality({GroupKey(p[2]) : p \in JobFiles(i)})
                            = Cardinality(sheets)
                      /\ \A p \in JobFiles(i) :
                            /\ p[1] = stem
                            /\ Suffix(p[2]) \in {".csv", ".md", ".html", ".txt"}
                      /\ \A sh \in sheets : <<stem, <<stem, "_", sh, ".csv">>>> \in JobFiles(i)

\* C13 witness: a finished run with extract_tables set over a workbook of two
\* sheets and a document: the workbook's job wrote its eight sheet files.
C13_Witness ==
    /\ pc = "done"
    /\ extract_tables
    /\ Len(files) = 2
    /\ \E i \in DOMAIN files :
          /\ Ext(files[i].name) = "xlsx"
          /\ Cardinality(files[i].body.sheets) = 2
          /\ Cardinality(JobFiles(i)) = 8
    /\ Len(results) = 1

\* the rows of the dataset for page k of job i
RowsFor(i, k) == {n \in DOMAIN rows : rows[n].job = i /\ rows[n].page = k}

\* C14: rows exist and the dataset is offered only when the flattened-dataset
\* flag is set and every job of the batch is Completed or Failed; the dataset
\* then has exactly one row for each page of each Completed job, and no other
\* row (none for a Failed job).
C14_DatasetRowsPerPage ==
    /\ (rows # <<>> \/ "parquet" \in offered) =>
          /\ export_mm
          /\ \A i \in DOMAIN files : JobState(i) \in {"Completed", "Failed"}
    /\ "parquet" \in offered =>
          /\ \A i \in DOMAIN files :
                /\ JobState(i) = "Completed" =>
                      \A k \in DOMAIN files[i].body.pages :
                          Cardinality(RowsFor(i, k)) = 1
                /\ JobState(i) = "Failed" =>
                      ~\E n \in DOMAIN rows : rows[n].job = i
          /\ \A n \in DOMAIN rows :
                /\ rows[n].job \in DOMAIN files
                /\ rows[n].page \in DOMAIN files[rows[n].job].body.pages
                /\ rows[n].doc = files[rows[n].job].name

\* C14 witness: a finished run with the flag set over a two-page document
\* and a file whose conversion failed: the dataset has the two rows of the
\* document.
C14_Witness ==
    /\ pc = "done"
    /\ export_mm
    /\ "parquet" \in offered
    /\ Len(files) = 2
    /\ \E i \in DOMAIN files : JobState(i) = "Failed"
    /\ \E i \in DOMAIN files :
          /\ JobState(i) = "Completed"
          /\ Len(files[i].body.pages) = 2
    /\ Len(rows) = 2

\* the file <stem><ext> of the working directory of job i was written by job i
WrittenBy(i, ext) ==
    LET p == <<WorkDir(i), DocName(WorkDir(i), ext)>>
    IN  p \in DOMAIN fs /\ fs[p].job = i

\* C17: when the run is over and one rendering of a document could not be
\* written, the job of that document has still written its other two
\* renderings and its annotated text, and no later job of the batch was left
\* waiting.
C17_RenderingsIndependent ==
    (pc = "crashed" /\ \E k \in 1..3 : raised = Renderings[k].call) =>
        /\ \A k \in 1..3 :
              raised # Renderings[k].call => WrittenBy(idx, Renderings[k].ext)
        /\ WrittenBy(idx, ".txt")
        /\ \A i \in DOMAIN files : JobState(i) # "Pending"

\* C18: when writing a member of the archive failed, the run has ended with
\* that exception (it did not go on to its success message) and no download
\* of the archive is offered, whether or not members were already written.
C18_FailedArchiveNotOffered ==
    raised = "zf.write" =>
        /\ pc = "crashed"
        /\ "zip" \notin offered

\* C18 witness: the archive step failed after it had written the members of
\* one directory and before those of another.
C18_Witness ==
    /\ raised = "zf.write"
    /\ zip # {}
    /\ zip # ArchiveAll
    /\ Len(files) = 2

\* every job of the batch is Completed or Failed
AllResolved ==
    /\ files # <<>>
    /\ \A i \in DOMAIN files : JobState(i) \in {"Completed", "Failed"}

\* C19: once a batch is started (the loop of main() is at its first file),
\* every job of the batch eventually reaches Completed or Failed.
C19_EveryJobResolves == (pc = "loop" /\ idx = 1) ~> AllResolved

PastDataset ==
    \/ pc \in {"zip", "done"}
    \/ pc = "crashed" /\ raised \in {"page.image", "zf.write"}

\* C24: when the flattened dataset is requested and a page of a Completed job
\* has no generated image, the dataset step still emits the row of that page
\* and the run goes on to the dataset and the archive instead of ending at
\* the page
C24_RowForPageWithoutImage ==
    (export_mm /\ PastDataset)
        => /\ raised # "page.image"
           /\ \A i \in DOMAIN results : \A k \in DOMAIN results[i].pages :
                 ~results[i].pages[k]
                     => \E n \in DOMAIN rows :
                           rows[n].job = results[i].idx /\ rows[n].page = k

\* job i leaves Processing in this step
LeavesProcessing(i) ==
    JobState(i) = "Processing" /\ JobState(i)' \in {"Completed", "Failed"}

\* C25: progress is reported once after each job leaves Processing, workbooks
\* included: when the k-th job leaves Processing the value reported is k of
\* total, the value changes in no other step of a run and then by one upwards,
\* and when the loop is over the value is total of total.
C25_ProgressAfterEachJob ==
    [][~AtRest =>
          /\ \A i \in DOMAIN files :
                LeavesProcessing(i) => progress' = <<i, Len(files)>>
          /\ progress' # progress =>
                /\ \E i \in DOMAIN files : LeavesProcessing(i)
                /\ progress'[1] = progress[1] + 1
                /\ progress'[2] = progress[2]
          /\ pc' = "finalize" => progress' = <<Len(files), Len(files)>>]_vars

\* a batch of a workbook and a document is through its loop with 2 of 2
\* reported
C25_Witness ==
    /\ pc = "finalize"
    /\ Len(files) = 2
    /\ progress = <<2, 2>>
    /\ \E i \in DOMAIN files : Ext(files[i].name) = "xlsx"
    /\ \E i \in DOMAIN files : Ext(files[i].name) # "xlsx"

MemberPaths(z) == {<<m.pref, m.bucket, m.name>> : m \in z}

\* the artifacts of the completed jobs of run k of the two: the files of
\* the working directories of its batch
RunArtifacts(k) ==
    LET f == twin.side[k].fs
    IN  [p \in {q \in DOMAIN f : q[1] \in twin.batch} |-> f[p]]

\* C12: two runs with the same completed jobs and the same artifacts of
\* these jobs package archives with the same member paths (so the same member
\* set and the same bucket for every member), whatever earlier runs left
\* under artifacts/ before each of them.
C12_ArchiveDetermined ==
    (/\ Len(twin.side) = 2
     /\ twin.side[1].ran /\ twin.side[2].ran
     /\ RunArtifacts(1) = RunArtifacts(2))
    => MemberPaths(twin.side[1].zip) = MemberPaths(twin.side[2].zip)

\* C28: every regular file under the working directory of a job of the
\* batch, at any depth, the files inside a subdirectory of the working
\* directory included, is a member of the archive the run packaged.
C28_FilesAtAnyDepthArchived ==
    \A k \in DOMAIN twin.side :
        twin.side[k].ran =>
            \A p \in DOMAIN twin.side[k].fs :
                (p[1] \in twin.batch /\ twin.side[k].fs[p].kind # "dir")
                    => \E m \in twin.side[k].zip : m.src = p

(***************************************************************************)
(* The single-file converter, app_opt.py: one file, one output format.     *)
(***************************************************************************)
\* VisionParseConfig.SUPPORTED_TYPES (three of its entries)
SUPPORTED_TYPES(t) ==
    IF t = "PDF" THEN {"pdf"}
    ELSE IF t = "Word Document" THEN {"docx"}
    ELSE {"png", "jpg", "jpeg"}

FileTypes == {"PDF", "Word Document", "Image"}

\* VisionParseConfig.OUTPUT_FORMATS
OUTPUT_FORMATS == {"Markdown", "JSON", "YAML"}

\* the files a user can give to the uploader; conv says what
\* converter.convert makes of the bytes: a result, or an exception
OptFiles ==
    {[name |-> <<"report", "pdf">>, conv |-> "ok"],
     [name |-> <<"broken", "pdf">>, conv |-> "raises"],
     [name |-> <<"notes", "docx">>, conv |-> "ok"],
     [name |-> <<"scan", "png">>, conv |-> "raises"]}

\* file.name.rsplit(".", 1)[0]
BaseFilename(name) == name[1]

\* the script of app_opt is not inside a conversion
OptAtRest == opt.pc \in {"idle", "done"}

\* a script run without conversion, caused by a widget event on the state
\* o: the uploader's file, if it holds one, becomes current_file (line 101),
\* and the page of the last run is gone
Rerun(o) ==
    [o EXCEPT !.current_file = IF o.uploaded_file # NoFile THEN o.uploaded_file ELSE @,
              !.pc = "idle", !.result = NoResult, !.raised = FALSE, !.page = NoPage]

\* st.selectbox('Select file type'): the uploader is a new widget, empty
SelectFileType ==
    /\ OptAtRest
    /\ \E t \in FileTypes \ {opt.file_type} :
          opt' = Rerun([opt EXCEPT !.file_type = t, !.uploaded_file = NoFile])
    /\ UNCHANGED <<batchVars, call>>

\* st.file_uploader(type=SUPPORTED_TYPES[file_type]): a file is uploaded
UploadFile ==
    /\ OptAtRest
    /\ \E f \in OptFiles :
          /\ Ext(f.name) \in SUPPORTED_TYPES(opt.file_type)
          /\ f # opt.uploaded_file
          /\ opt' = Rerun([opt EXCEPT !.uploaded_file = f])
    /\ UNCHANGED <<batchVars, call>>

\* the file is taken out of the uploader: current_file stays as it is
RemoveFile ==
    /\ OptAtRest
    /\ opt.uploaded_file # NoFile
    /\ opt' = Rerun([opt EXCEPT !.uploaded_file = NoFile])
    /\ UNCHANGED <<batchVars, call>>

\* st.radio("Output Format")
SelectOutputFormat ==
    /\ OptAtRest
    /\ \E fmt \in OUTPUT_FORMATS \ {opt.output_format} :
          opt' = Rerun([opt EXCEPT !.output_format = fmt])
    /\ UNCHANGED <<batchVars, call>>

\* st.checkbox("Enable OCR")
ToggleOcr ==
    /\ OptAtRest
    /\ opt' = Rerun([opt EXCEPT !.use_ocr = ~@])
    /\ UNCHANGED <<batchVars, call>>

\* the button 'Clear': current_file and conversion_result are set to None
\* and st.rerun() runs the script again
Clear ==
    /\ OptAtRest
    /\ opt' = Rerun([opt EXCEPT !.current_file = NoFile])
    /\ UNCHANGED <<batchVars, call>>

\* the button 'Start Conversion' (disabled while current_file is None): the
\* script runs with start_conversion set and goes to process_document
StartConversion ==
    /\ OptAtRest
    /\ opt.current_file # NoFile
    /\ opt' = [Rerun(opt) EXCEPT !.pc = "process"]
    /\ UNCHANGED <<batchVars, call>>

\* st.error(f"Error during conversion of {file.name}: {str(e)}")
ErrorMessage(name) == <<"Error during conversion of ", name, ": ", "e">>

\* mutant of process_document: the exception is reported and a result
\* without document is handed on
process_document_keeps_result ==
    /\ opt.pc = "process"
    /\ IF opt.current_file.conv = "ok"
       THEN opt' = [opt EXCEPT !.pc = "output",
                               !.result = [name |-> opt.current_file.name,
                                           document |-> <<"document of",
                                                          opt.current_file.name>>]]
       ELSE opt' = [opt EXCEPT !.pc = "output",
                               !.result = [name |-> opt.current_file.name,
                                           document |-> <<"nothing">>],
                               !.raised = TRUE,
                               !.page.error = @ \cup {ErrorMessage(opt.current_file.name)}]
    /\ UNCHANGED <<batchVars, call>>

\* process_document(converter, file, settings, config): the result of
\* converter.convert, or st.error and None when anything in the try raises
process_document ==
    /\ opt.pc = "process"
    /\ IF opt.current_file.conv = "ok"
       THEN opt' = [opt EXCEPT !.pc = "output",
                               !.result = [name |-> opt.current_file.name,
                                           document |-> <<"document of",
                                                          opt.current_file.name>>]]
       ELSE opt' = [opt EXCEPT !.pc = "output",
                               !.result = NoResult,
                               !.raised = TRUE,
                               !.page.error = @ \cup {ErrorMessage(opt.current_file.name)}]
    /\ UNCHANGED <<batchVars, call>>

\* the content, the file name and the preview widget of an output format
\* (lines 154-162 and 168-171)
OutputOf(fmt, result, name) ==
    IF fmt = "Markdown"
    THEN [content |-> <<"export_to_markdown", result.document>>,
          filename |-> <<BaseFilename(name), ".md">>, preview |-> "st.markdown"]
    ELSE IF fmt = "JSON"
    THEN [content |-> <<"export_to_dict", result.document>>,
          filename |-> <<BaseFilename(name), ".json">>, preview |-> "st.json"]
    ELSE [content |-> <<"export_to_dict", result.document>>,
          filename |-> <<BaseFilename(name), ".yaml">>, preview |-> "st.code"]

\* get_binary_file_downloader_html(content, file_name, file_label): a dict is
\* dumped as JSON for a .json name and as YAML otherwise, a string is
\* encoded; the bytes go into the href in base64
get_binary_file_downloader_html(content, file_name, file_label) ==
    LET bytes == IF content[1] = "export_to_dict"
                 THEN IF Suffix(file_name) = ".json"
                      THEN <<"json.dumps", content>>
                      ELSE <<"yaml.safe_dump", content>>
                 ELSE <<"encode", content>>
    IN  [href |-> <<"b64encode", bytes>>, download |-> file_name, label |-> file_label]

\* handle_conversion_output(result, settings, file): nothing for no result;
\* else the success message, the download link and the preview
handle_conversion_output ==
    /\ opt.pc = "output"
    /\ IF opt.result = NoResult
       THEN opt' = [opt EXCEPT !.pc = "done"]
       ELSE LET out == OutputOf(opt.output_format, opt.result, opt.current_file.name)
            IN opt' = [opt EXCEPT
                          !.pc = "done",
                          !.page.success = TRUE,
                          !.page.link = @ \cup {get_binary_file_downloader_html(
                                                    out.content, out.filename,
                                                    <<"Download ", opt.output_format, " File">>)},
                          !.page.preview = @ \cup {[widget |-> out.preview,
                                                    content |-> out.content]}]
    /\ UNCHANGED <<batchVars, call>>

InitOpt ==
    /\ pc = "idle"
    /\ files = <<>>
    /\ extract_tables = FALSE
    /\ export_mm = FALSE
    /\ runs = 0
    /\ idx = 0
    /\ dirs = {}
    /\ fs = <<>>
    /\ tmp = {}
    /\ res = NoRes
    /\ results = <<>>
    /\ progress = <<0, 0>>
    /\ status = <<>>
    /\ errors = {}
    /\ rows = <<>>
    /\ zip = {}
    /\ offered = {}
    /\ raised = ""
    /\ fault = ""
    /\ twin = NoTwin
    /\ call = NoCall
    /\ opt = NoOpt

NextOpt ==
    \/ SelectFileType
    \/ UploadFile
    \/ RemoveFile
    \/ SelectOutputFormat
    \/ ToggleOcr
    \/ Clear
    \/ StartConversion
    \/ process_document
    \/ handle_conversion_output

SpecOpt == InitOpt /\ [][NextOpt]_vars

(***************************************************************************)
(* Claims about the single-file converter (SpecOpt).                       *)
(***************************************************************************)
\* C30: in the single-file converter, when the conversion raises,
\* process_document reports an error that names the file and returns no
\* result, and handle_conversion_output then shows no download link, no
\* success message and no preview; a download link is on the page only for a
\* conversion that returned a result.
C30_NoDownloadWithoutResult ==
    /\ (opt.pc \in {"output", "done"} /\ opt.raised) =>
          /\ opt.result = NoResult
          /\ opt.page.error = {ErrorMessage(opt.current_file.name)}
          /\ opt.page.link = {} /\ ~opt.page.success /\ opt.page.preview = {}
    /\ opt.page.link # {} =>
          /\ ~opt.raised
          /\ opt.result # NoResult
          /\ opt.result.name = opt.current_file.name

\* the conversion of a file raised and the script run is over: the page has
\* the error and nothing else
C30_Witness ==
    /\ opt.pc = "done"
    /\ opt.raised
    /\ opt.page.error # {}
    /\ opt.page.link = {}

====
